---- MODULE Spec2Model ----
(***************************************************************************)
(* A model of the dashboards of app.py: the column resolver pick_first,     *)
(* the key normaliser safe_to_str_zfill, the margin derivation of the      *)
(* county-map view (tab1), the cross-year join and margin derivation of    *)
(* the scatter view (tab2), the energy view (tab3) with the wide-to-long   *)
(* reshaping of visualization3_dark.load_data, and the load caches and     *)
(* error boundaries of a session of script runs.                           *)
(*                                                                         *)
(* Data frames are records [cols, rows]: cols is the physical column       *)
(* order, rows a sequence of functions from column name to cell. A cell is *)
(* a record [kind, n, d, s]:                                               *)
(*   kind = "int"    an int64 value n                                      *)
(*   kind = "float"  a finite float64 value, held as the exact rational    *)
(*                   n/d in lowest terms (IEEE rounding is not modelled)   *)
(*   kind = "nan"    a missing value (NaN)                                 *)
(*   kind = "inf"    +inf (n = 1) or -inf (n = -1)                         *)
(*   kind = "str"    a string, s being its sequence of characters          *)
(***************************************************************************)
EXTENDS Integers, Sequences, FiniteSets, TLC

VARIABLES
    file2024,       \* content of DEFAULT_2024 on disk
    file2020,       \* content of DEFAULT_2020 on disk
    energy_csv,     \* content of the OWID energy CSV behind its URL
    flaky,          \* the files and URLs whose fetch may fail
    cache,          \* the entries of the st.cache_data / st.cache_resource functions
    loaded0,        \* history: the table each election loader returned when its body ran
    calls,          \* the cached functions whose body ran, and raised, in the last step
    runs,           \* script runs started in this session
    pc,             \* position of the script run: "tab1", "tab2", "tab3", "done"
    df,             \* tab1: the working table (app.py:85)
    g,              \* tab1: county shapes left-merged with the margins (app.py:149)
    out1,           \* tab1: what the view showed
    df2024,         \* tab2: working tables (app.py:223-234)
    df2020,
    merged_df,      \* tab2: the joined table (app.py:240-302)
    out2,           \* tab2: what the view showed
    energy_df,      \* tab3: the frames load_data returned (visualization3_dark.py:112)
    energy_long_df,
    out3,           \* tab3: what the view showed
    pf_df,          \* pick_first call: the table argument
    pf_candidates,  \* pick_first call: the candidate list
    pf_result,      \* pick_first call: the value returned
    pf_pc           \* pick_first call: "idle", "call" or "returned"

scriptVars == <<file2024, file2020, energy_csv, flaky, cache, loaded0, calls, runs, pc,
                df, g, out1, df2024, df2020, merged_df, out2,
                energy_df, energy_long_df, out3>>
pickVars == <<pf_df, pf_candidates, pf_result, pf_pc>>
vars == <<file2024, file2020, energy_csv, flaky, cache, loaded0, calls, runs, pc,
          df, g, out1, df2024, df2020, merged_df, out2,
          energy_df, energy_long_df, out3,
          pf_df, pf_candidates, pf_result, pf_pc>>

(***************************************************************************)
(* Bounds of the model                                                     *)
(***************************************************************************)
\* rows of an input table whose cell values vary
MaxRows == 2
\* length of the candidate list handed to pick_first in SpecPick
MaxCands == 3
\* script runs of one session in SpecApp
MaxRuns == 2

(***************************************************************************)
(* Generic helpers                                                         *)
(***************************************************************************)
Range(f) == {f[i] : i \in DOMAIN f}

SetMin(S) == CHOOSE x \in S : \A y \in S : x <= y

AbsInt(i) == IF i < 0 THEN -i ELSE i

Sign(i) == IF i < 0 THEN -1 ELSE IF i > 0 THEN 1 ELSE 0

RECURSIVE GCD(_, _)
GCD(a, b) == IF b = 0 THEN a ELSE GCD(b, a % b)

\* all sequences over S of length at most n
SeqsUpTo(S, n) == UNION {[1..k -> S] : k \in 0..n}

\* the sequences over S without repetition, of length at most n
DistinctSeqsUpTo(S, n) ==
    {q \in SeqsUpTo(S, n) : \A i, j \in DOMAIN q : i # j => q[i] # q[j]}

(***************************************************************************)
(* Cells                                                                   *)
(***************************************************************************)
IntCell(i) == [kind |-> "int", n |-> i, d |-> 1, s |-> <<>>]

NaN == [kind |-> "nan", n |-> 0, d |-> 1, s |-> <<>>]

Inf(sgn) == [kind |-> "inf", n |-> sgn, d |-> 1, s |-> <<>>]

StrCell(chars) == [kind |-> "str", n |-> 0, d |-> 1, s |-> chars]

\* the float num/den, den # 0, in lowest terms with a positive denominator
Float(num, den) ==
    LET sn == IF den < 0 THEN -num ELSE num
        sd == AbsInt(den)
        k  == GCD(AbsInt(sn), sd)
    IN  [kind |-> "float", n |-> sn \div k, d |-> sd \div k, s |-> <<>>]

\* the float h/100: 0.55 is Cent(55), 12.0 is Cent(1200)
Cent(h) == Float(h, 100)

IsNum(x) == x.kind \in {"int", "float"}

\* Series.astype(float) on a numeric column
AsFloat(x) == IF x.kind = "int" THEN Float(x.n, 1) ELSE x

\* float subtraction; NaN propagates
FSub(a, b) ==
    IF IsNum(a) /\ IsNum(b) THEN Float(a.n * b.d - b.n * a.d, a.d * b.d) ELSE NaN

FAdd(a, b) ==
    IF IsNum(a) /\ IsNum(b) THEN Float(a.n * b.d + b.n * a.d, a.d * b.d) ELSE NaN

\* multiplication by the positive integer k
FScale(a, k) ==
    IF IsNum(a) THEN Float(a.n * k, a.d) ELSE a

\* float division as numpy does it: x/0 is +-inf, 0/0 is NaN, nothing raises
FDiv(a, b) ==
    IF ~(IsNum(a) /\ IsNum(b)) THEN NaN
    ELSE IF b.n = 0 THEN (IF a.n = 0 THEN NaN ELSE Inf(Sign(a.n)))
    ELSE Float(a.n * b.d, a.d * b.n)

FAbs(a) == IF a.kind = "nan" THEN a ELSE [a EXCEPT !.n = AbsInt(a.n)]

\* a <= b on floats; every comparison with NaN is False
FLe(a, b) ==
    /\ a.kind # "nan" /\ b.kind # "nan"
    /\ IF a.kind = "inf" THEN a.n = -1 \/ (b.kind = "inf" /\ b.n = 1)
       ELSE IF b.kind = "inf" THEN b.n = 1
       ELSE a.n * b.d <= b.n * a.d

FGt(a, b) == a.kind # "nan" /\ b.kind # "nan" /\ ~FLe(a, b)

\* Series.fillna(0)
FillNa0(x) == IF x.kind = "nan" THEN IntCell(0) ELSE x

(***************************************************************************)
(* Strings                                                                 *)
(***************************************************************************)
DigitChar(k) == <<"0", "1", "2", "3", "4", "5", "6", "7", "8", "9">>[k + 1]

\* str(i) of a non-negative int
RECURSIVE Digits(_)
Digits(i) == IF i < 10 THEN <<DigitChar(i)>> ELSE Append(Digits(i \div 10), DigitChar(i % 10))

\* the digits after the point of str(x) for a non-negative float whose
\* denominator divides 100: "0" for a whole number, else one or two digits
FracDigits(x) ==
    LET h == ((x.n * 100) \div x.d) % 100
    IN  IF h % 10 = 0 THEN <<DigitChar(h \div 10)>>
        ELSE <<DigitChar(h \div 10), DigitChar(h % 10)>>

\* the value of a string of digits (used only to say which county a key denotes)
RECURSIVE DigitsValue(_)
DigitsValue(chars) ==
    IF chars = <<>> THEN 0
    ELSE LET c == chars[Len(chars)]
             v == CHOOSE k \in 0..9 : DigitChar(k) = c
         IN  DigitsValue(SubSeq(chars, 1, Len(chars) - 1)) * 10 + v

RECURSIVE Zeros(_)
Zeros(k) == IF k <= 0 THEN <<>> ELSE <<"0">> \o Zeros(k - 1)

\* str(x) as Series.astype(str) gives it: "6037" for the int 6037, "6037.0" for the
\* float 6037.0, "nan" for a missing value; a string stays as it is. Codes are
\* non-negative, so no sign is written.
AsStr(x) ==
    CASE x.kind = "int"   -> Digits(x.n)
      [] x.kind = "float" -> Digits(x.n \div x.d) \o <<".">> \o FracDigits(x)
      [] x.kind = "nan"   -> <<"n", "a", "n">>
      [] x.kind = "inf"   -> <<"i", "n", "f">>
      [] OTHER            -> x.s

\* str.zfill(width): pads on the left with "0" up to width, never shortens
zfill(chars, width) ==
    IF Len(chars) >= width THEN chars ELSE Zeros(width - Len(chars)) \o chars

(***************************************************************************)
(* Data frames                                                             *)
(***************************************************************************)
Columns(t) == Range(t.cols)

NRows(t) == Len(t.rows)

\* the Series t[c]
Col(t, c) == [i \in 1..NRows(t) |-> t.rows[i][c]]

\* t[c] = series: replaces the column, or appends it as the last column
SetCol(t, c, series) ==
    [cols |-> IF c \in Columns(t) THEN t.cols ELSE Append(t.cols, c),
     rows |-> [i \in 1..NRows(t) |->
                 [k \in Columns(t) \cup {c} |-> IF k = c THEN series[i] ELSE t.rows[i][k]]]]

\* t[names]: the named columns, in that order
Select(t, names) ==
    [cols |-> names,
     rows |-> [i \in 1..NRows(t) |-> [k \in Range(names) |-> t.rows[i][k]]]]

\* t.drop(columns=names)
Drop(t, names) ==
    LET keep == SelectSeq(t.cols, LAMBDA c : c \notin names)
    IN  Select(t, keep)

\* t.rename(columns={old: new})
Rename(t, old, new) ==
    [cols |-> [i \in 1..Len(t.cols) |-> IF t.cols[i] = old THEN new ELSE t.cols[i]],
     rows |-> [i \in 1..NRows(t) |->
                 [k \in (Columns(t) \ {old}) \cup {new} |->
                    IF k = new THEN t.rows[i][old] ELSE t.rows[i][k]]]]

\* Series.abs().max(): the largest absolute value, missing values skipped;
\* NaN for an empty or all-missing series
AbsMax(series) ==
    LET present == {FAbs(AsFloat(series[i])) : i \in {j \in DOMAIN series : series[j].kind # "nan"}}
    IN  IF present = {} THEN NaN
        ELSE CHOOSE m \in present : \A x \in present : FLe(x, m)

(***************************************************************************)
(* Utility helpers (app.py:18-34)                                          *)
(***************************************************************************)
\* Python's None, which is no column name
None == "None"

\* truth value of a pick_first result in `if a and b`
Truthy(name) == name # None /\ name # ""

\* pick_first as a scan of the table's columns (the layout decides)
RECURSIVE pick_first_by_layout(_, _)
pick_first_by_layout(t, candidates) ==
    IF t.cols = <<>> THEN None
    ELSE IF Head(t.cols) \in Range(candidates) THEN Head(t.cols)
    ELSE pick_first_by_layout([t EXCEPT !.cols = Tail(t.cols)], candidates)

RECURSIVE pick_first(_, _)
pick_first(t, candidates) ==
    IF candidates = <<>> THEN None
    ELSE IF Head(candidates) \in Columns(t) THEN Head(candidates)
    ELSE pick_first(t, Tail(candidates))

Width == 5

\* s.astype(str).str.zfill(width) on a key column
safe_to_str_zfill(series, width) ==
    [i \in DOMAIN series |-> StrCell(zfill(AsStr(series[i]), width))]

(***************************************************************************)
(* Tab 1: candidate names (app.py:88-107)                                  *)
(***************************************************************************)
FIPS_CANDIDATES ==
    <<"GEOID", "fips", "FIPS", "county_fips", "county_fips_code", "fips_code", "countyFIPS">>

TRUMP_PCT_CANDIDATES ==
    <<"trump_pct", "pct_trump", "per_gop", "pct_gop", "rep_pct", "republican_pct">>

BIDEN_PCT_CANDIDATES ==
    <<"biden_pct", "pct_biden", "per_dem", "pct_dem", "dem_pct", "democrat_pct">>

TRUMP_VOTES_CANDIDATES ==
    <<"trump_votes", "votes_trump", "gop_votes", "rep_votes", "republican_votes">>

BIDEN_VOTES_CANDIDATES ==
    <<"biden_votes", "votes_biden", "dem_votes", "democrat_votes">>

TOTAL_VOTES_CANDIDATES == <<"total_votes", "votes_total", "total", "ballots">>

PRE_MARGIN_CANDIDATES ==
    <<"margin", "margin_pct", "rep_margin", "gop_margin", "trump_biden_margin",
      "trump_minus_biden_pct", "biden_trump_margin", "per_point_diff">>

\* the threshold 1.5 of the scale detection
FracThreshold == Cent(150)

(***************************************************************************)
(* Margin derivation from each source shape                                *)
(***************************************************************************)
\* the share difference without the scale detection
ShareMarginUnscaled(t, a_col, b_col) ==
    [i \in 1..NRows(t) |->
        FSub(AsFloat(t.rows[i][a_col]), AsFloat(t.rows[i][b_col]))]

\* app.py:113-114 and 262-263, 277-278: (A - B) * scale, scale being 100 when the
\* largest absolute value of the A column is <= 1.5 and 1 otherwise
ShareMargin(t, a_col, b_col) ==
    LET scale == IF FLe(AbsMax(Col(t, a_col)), FracThreshold) THEN 100 ELSE 1
    IN  [i \in 1..NRows(t) |->
            FScale(FSub(AsFloat(t.rows[i][a_col]), AsFloat(t.rows[i][b_col])), scale)]

\* np.where evaluated with a condition per row
PreMarginRowwise(t, m_col) ==
    [i \in 1..NRows(t) |->
        LET m == AsFloat(t.rows[i][m_col])
        IN  IF FLe(FAbs(m), FracThreshold) THEN FScale(m, 100) ELSE m]

\* app.py:117-118: np.where(m.abs().max() <= 1.5, m*100, m); the condition is one
\* scalar, so every row takes the same branch
PreMargin(t, m_col) ==
    LET rescale == FLe(AbsMax(Col(t, m_col)), FracThreshold)
    IN  [i \in 1..NRows(t) |->
            LET m == AsFloat(t.rows[i][m_col])
            IN  IF rescale THEN FScale(m, 100) ELSE m]

\* app.py:122 and 271: a.fillna(0) + b.fillna(0)
VoteSum(t, a_col, b_col) ==
    [i \in 1..NRows(t) |-> FAdd(FillNa0(t.rows[i][a_col]), FillNa0(t.rows[i][b_col]))]

\* app.py:124 and 273: (A - B) / total * 100
CountMarginOver(t, a_col, b_col, tot_col) ==
    [i \in 1..NRows(t) |->
        FScale(FDiv(FSub(AsFloat(t.rows[i][a_col]), AsFloat(t.rows[i][b_col])),
                    AsFloat(t.rows[i][tot_col])), 100)]

\* the count branch with the explicit total column never consulted
CountMarginTableSumOnly(t, a_col, b_col, tot_col, out_col) ==
    LET t1 == SetCol(t, "__total_votes__", VoteSum(t, a_col, b_col))
    IN  SetCol(t1, out_col, CountMarginOver(t1, a_col, b_col, "__total_votes__"))

\* app.py:121-124 and 270-273: the count branch; tot_col is None when no total
\* column resolved, and then __total_votes__ is added to the table
CountMarginTable(t, a_col, b_col, tot_col, out_col) ==
    LET t1  == IF tot_col = None
               THEN SetCol(t, "__total_votes__", VoteSum(t, a_col, b_col)) ELSE t
        tot == IF tot_col = None THEN "__total_votes__" ELSE tot_col
    IN  SetCol(t1, out_col, CountMarginOver(t1, a_col, b_col, tot))

(***************************************************************************)
(* DataFrame.merge (app.py:149 and 240-247)                                *)
(***************************************************************************)
\* the right-hand rows whose key equals key, in order, from row j on
RECURSIVE Matches(_, _, _, _)
Matches(right, right_on, key, j) ==
    IF j > NRows(right) THEN <<>>
    ELSE (IF right.rows[j][right_on] = key THEN <<j>> ELSE <<>>)
         \o Matches(right, right_on, key, j + 1)

\* the (left row, right row) pairs of the join, in left order, from left row i on;
\* a right row of 0 stands for "no match" and is produced by a left join only
RECURSIVE JoinPairs(_, _, _, _, _, _)
JoinPairs(left, right, left_on, right_on, how, i) ==
    IF i > NRows(left) THEN <<>>
    ELSE LET ms == Matches(right, right_on, left.rows[i][left_on], 1)
             here == IF ms = <<>>
                     THEN (IF how = "left" THEN <<(<<i, 0>>)>> ELSE <<>>)
                     ELSE [k \in 1..Len(ms) |-> <<i, ms[k]>>]
         IN  here \o JoinPairs(left, right, left_on, right_on, how, i + 1)

\* left.merge(right, left_on, right_on, how, suffixes): a key column named alike on
\* both sides appears once; every other name the two sides share gets the side's
\* suffix; the rows are the key-equal pairs in left order, and for how="left" a
\* left row without a partner is kept with the right-hand cells missing
Merge(left, right, left_on, right_on, how, lsuffix, rsuffix) ==
    LET shared  == IF left_on = right_on THEN {left_on} ELSE {}
        overlap == (Columns(left) \cap Columns(right)) \ shared
        LName(c) == IF c \in overlap THEN c \o lsuffix ELSE c
        RName(c) == IF c \in overlap THEN c \o rsuffix ELSE c
        rcols   == SelectSeq(right.cols, LAMBDA c : c \notin shared)
        lnames  == {LName(c) : c \in Columns(left)}
        rnames  == {RName(c) : c \in Range(rcols)}
        pairs   == JoinPairs(left, right, left_on, right_on, how, 1)
    IN  [cols |-> [k \in 1..Len(left.cols) |-> LName(left.cols[k])]
                  \o [k \in 1..Len(rcols) |-> RName(rcols[k])],
         rows |-> [p \in 1..Len(pairs) |->
                     [k \in lnames \cup rnames |->
                        IF k \in lnames
                        THEN left.rows[pairs[p][1]][CHOOSE c \in Columns(left) : LName(c) = k]
                        ELSE IF pairs[p][2] = 0 THEN NaN
                        ELSE right.rows[pairs[p][2]][CHOOSE c \in Range(rcols) : RName(c) = k]]]]

(***************************************************************************)
(* Tab 1: the county map (app.py:79-211)                                   *)
(***************************************************************************)
Empty == [cols |-> <<>>, rows |-> <<>>]

\* the Census county shapes read_geodata_from_url returns (app.py:139-141):
\* STATEFP and COUNTYFP are strings of 2 and 3 digits; 78 is the Virgin Islands
CountyShapes ==
    LET Shape(st, co) == [STATEFP |-> StrCell(st), COUNTYFP |-> StrCell(co)]
    IN  [cols |-> <<"STATEFP", "COUNTYFP">>,
         rows |-> << Shape(<<"0", "1">>, <<"0", "0", "1">>),
                     Shape(<<"0", "6">>, <<"0", "3", "7">>),
                     Shape(<<"4", "8">>, <<"2", "0", "1">>),
                     Shape(<<"7", "8">>, <<"0", "1", "0">>) >>]

\* app.py:144-147: the territories are dropped and GEOID is the concatenation of
\* the two code strings
CountiesWithGEOID(shapes) ==
    LET kept == [shapes EXCEPT !.rows =
                    SelectSeq(shapes.rows, LAMBDA r : r["STATEFP"].s # <<"7", "8">>)]
    IN  SetCol(kept, "GEOID",
               [i \in 1..NRows(kept) |->
                   StrCell(AsStr(kept.rows[i]["STATEFP"]) \o AsStr(kept.rows[i]["COUNTYFP"]))])

\* the derivation with the pre-computed margin column tried before the share pair
Tab1DeriveMarginFirst(t) ==
    LET trump_pct_col   == pick_first(t, TRUMP_PCT_CANDIDATES)
        biden_pct_col   == pick_first(t, BIDEN_PCT_CANDIDATES)
        trump_votes_col == pick_first(t, TRUMP_VOTES_CANDIDATES)
        biden_votes_col == pick_first(t, BIDEN_VOTES_CANDIDATES)
        total_votes_col == pick_first(t, TOTAL_VOTES_CANDIDATES)
        pre_margin_col  == pick_first(t, PRE_MARGIN_CANDIDATES)
    IN  IF Truthy(pre_margin_col)
        THEN [df   |-> SetCol(t, "margin_pct", PreMargin(t, pre_margin_col)),
              used |-> "margin"]
        ELSE IF Truthy(trump_pct_col) /\ Truthy(biden_pct_col)
        THEN [df   |-> SetCol(t, "margin_pct", ShareMargin(t, trump_pct_col, biden_pct_col)),
              used |-> "pct"]
        ELSE IF Truthy(trump_votes_col) /\ Truthy(biden_votes_col)
        THEN [df   |-> CountMarginTable(t, trump_votes_col, biden_votes_col,
                                        total_votes_col, "margin_pct"),
              used |-> "votes"]
        ELSE [df |-> t, used |-> None]

\* app.py:97-132: the margin derivation of tab1 on the table t; gives the table
\* with margin_pct added and which source was used (None: no source, error shown)
Tab1Derive(t) ==
    LET trump_pct_col   == pick_first(t, TRUMP_PCT_CANDIDATES)
        biden_pct_col   == pick_first(t, BIDEN_PCT_CANDIDATES)
        trump_votes_col == pick_first(t, TRUMP_VOTES_CANDIDATES)
        biden_votes_col == pick_first(t, BIDEN_VOTES_CANDIDATES)
        total_votes_col == pick_first(t, TOTAL_VOTES_CANDIDATES)
        pre_margin_col  == pick_first(t, PRE_MARGIN_CANDIDATES)
    IN  IF Truthy(trump_pct_col) /\ Truthy(biden_pct_col)
        THEN [df   |-> SetCol(t, "margin_pct", ShareMargin(t, trump_pct_col, biden_pct_col)),
              used |-> "pct"]
        ELSE IF Truthy(pre_margin_col)
        THEN [df   |-> SetCol(t, "margin_pct", PreMargin(t, pre_margin_col)),
              used |-> "margin"]
        ELSE IF Truthy(trump_votes_col) /\ Truthy(biden_votes_col)
        THEN [df   |-> CountMarginTable(t, trump_votes_col, biden_votes_col,
                                        total_votes_col, "margin_pct"),
              used |-> "votes"]
        ELSE [df |-> t, used |-> None]

\* what the text of an st.error enumerates: the column names it lists and the
\* expected names it lists; a text that lists none holds <<>>
NoMessage == [columns |-> <<>>, names |-> <<>>]

\* app.py:83-208: the whole view on the loaded table; msg is the text of
\* app.py:90-93 or 127-131
Tab1(loaded) ==
    LET fips_col == pick_first(loaded, FIPS_CANDIDATES)
    IN  IF fips_col = None
        THEN [df |-> loaded, g |-> Empty,
              out |-> [error |-> "no_fips", used |-> None, chart |-> FALSE,
                       msg |-> [columns |-> loaded.cols, names |-> FIPS_CANDIDATES]]]
        ELSE
          LET keyed   == SetCol(loaded, fips_col, safe_to_str_zfill(Col(loaded, fips_col), Width))
              derived == Tab1Derive(keyed)
          IN  IF derived.used = None
              THEN [df |-> derived.df, g |-> Empty,
                    out |-> [error |-> "no_margin", used |-> None, chart |-> FALSE,
                             msg |-> [columns |-> derived.df.cols, names |-> <<>>]]]
              ELSE [df |-> derived.df,
                    g  |-> Merge(CountiesWithGEOID(CountyShapes),
                                 Select(derived.df, <<fips_col, "margin_pct">>),
                                 "GEOID", fips_col, "left", "_x", "_y"),
                    out |-> [error |-> "none", used |-> derived.used, chart |-> TRUE,
                             msg |-> NoMessage]]

(***************************************************************************)
(* Tab 2: the cross-year scatter (app.py:216-511)                          *)
(***************************************************************************)
DROP_2020 == {"state_name", "county_name", "votes_gop", "votes_dem", "total_votes", "diff"}

PER_GOP_2024_CANDIDATES ==
    <<"per_gop_2024", "per_gop_2024", "per_gop", "pct_gop_2024", "gop_pct_2024", "per_gop">>

PER_DEM_2024_CANDIDATES ==
    <<"per_dem_2024", "per_dem", "pct_dem_2024", "dem_pct_2024", "per_dem">>

PER_GOP_2020_CANDIDATES == <<"per_gop_2020", "per_gop_2020", "per_gop_2020">>

PER_DEM_2020_CANDIDATES == <<"per_dem_2020", "per_dem_2020", "per_dem_2020">>

VOTES_GOP_CANDIDATES == <<"gop_votes_2024", "votes_gop_2024", "votes_gop", "gop_votes">>

VOTES_DEM_CANDIDATES == <<"dem_votes_2024", "votes_dem_2024", "votes_dem", "dem_votes">>

TOT_VOTES_CANDIDATES == <<"total_votes_2024", "total_votes">>

WINNER_GOP_CANDIDATES ==
    <<"per_gop_2024", "per_gop", "per_gop2024", "per_gop_24", "pct_gop_2024">>

WINNER_DEM_CANDIDATES ==
    <<"per_dem_2024", "per_dem", "per_dem2024", "per_dem_24", "pct_dem_2024">>

\* a label cell such as 'Republican'
Label(text) == StrCell(<<text>>)

\* the join with how="left"
Tab2JoinAsLeft(left, right, left_on, right_on) ==
    Merge(left, right, left_on, right_on, "left", "_2024", "_2020")

\* app.py:240-247: pd.merge(df2024, df2020 without the dropped columns,
\* how='inner', suffixes=('_2024', '_2020'))
Tab2Join(left, right, left_on, right_on) ==
    Merge(left, right, left_on, right_on, "inner", "_2024", "_2020")

\* app.py:259-273: per_point_diff_2024, kept as it is when the join already
\* carries a column of that name
Tab2Margin2024(m) ==
    LET per_gop_2024 == pick_first(m, PER_GOP_2024_CANDIDATES)
        per_dem_2024 == pick_first(m, PER_DEM_2024_CANDIDATES)
        votes_gop    == pick_first(m, VOTES_GOP_CANDIDATES)
        votes_dem    == pick_first(m, VOTES_DEM_CANDIDATES)
        tot_votes    == pick_first(m, TOT_VOTES_CANDIDATES)
    IN  IF "per_point_diff_2024" \in Columns(m) THEN m
        ELSE IF Truthy(per_gop_2024) /\ Truthy(per_dem_2024)
        THEN SetCol(m, "per_point_diff_2024", ShareMargin(m, per_gop_2024, per_dem_2024))
        ELSE IF Truthy(votes_gop) /\ Truthy(votes_dem)
        THEN CountMarginTable(m, votes_gop, votes_dem, tot_votes, "per_point_diff_2024")
        ELSE m

\* app.py:275-281: per_point_diff_2020, from the suffixed share pair only
Tab2Margin2020(m) ==
    LET per_gop_2020 == pick_first(m, PER_GOP_2020_CANDIDATES)
        per_dem_2020 == pick_first(m, PER_DEM_2020_CANDIDATES)
    IN  IF "per_point_diff_2020" \in Columns(m) THEN m
        ELSE IF Truthy(per_gop_2020) /\ Truthy(per_dem_2020)
        THEN SetCol(m, "per_point_diff_2020", ShareMargin(m, per_gop_2020, per_dem_2020))
        ELSE m

\* app.py:284-287
Tab2RenameState(m) ==
    IF "state_name_2024" \in Columns(m) THEN Rename(m, "state_name_2024", "State")
    ELSE IF "state_name" \in Columns(m) THEN Rename(m, "state_name", "State")
    ELSE m

\* the sign fallback with a margin of zero labelled 'Republican'
Tab2WinnerZeroRepublican(m) ==
    LET p_gop_24 == pick_first(m, WINNER_GOP_CANDIDATES)
        p_dem_24 == pick_first(m, WINNER_DEM_CANDIDATES)
    IN  IF Truthy(p_gop_24) /\ Truthy(p_dem_24)
        THEN SetCol(m, "Winner_2024",
                    [i \in 1..NRows(m) |->
                        IF FGt(AsFloat(m.rows[i][p_gop_24]), AsFloat(m.rows[i][p_dem_24]))
                        THEN Label("Republican") ELSE Label("Democratic")])
        ELSE IF "per_point_diff_2024" \in Columns(m)
        THEN SetCol(m, "Winner_2024",
                    [i \in 1..NRows(m) |->
                        IF FLe(IntCell(0), m.rows[i]["per_point_diff_2024"])
                        THEN Label("Republican") ELSE Label("Democratic")])
        ELSE SetCol(m, "Winner_2024", [i \in 1..NRows(m) |-> Label("Unknown")])

\* app.py:291-302
Tab2Winner(m) ==
    LET p_gop_24 == pick_first(m, WINNER_GOP_CANDIDATES)
        p_dem_24 == pick_first(m, WINNER_DEM_CANDIDATES)
    IN  IF Truthy(p_gop_24) /\ Truthy(p_dem_24)
        THEN SetCol(m, "Winner_2024",
                    [i \in 1..NRows(m) |->
                        IF FGt(AsFloat(m.rows[i][p_gop_24]), AsFloat(m.rows[i][p_dem_24]))
                        THEN Label("Republican") ELSE Label("Democratic")])
        ELSE IF "per_point_diff_2024" \in Columns(m)
        THEN SetCol(m, "Winner_2024",
                    [i \in 1..NRows(m) |->
                        IF FGt(m.rows[i]["per_point_diff_2024"], IntCell(0))
                        THEN Label("Republican") ELSE Label("Democratic")])
        ELSE SetCol(m, "Winner_2024", [i \in 1..NRows(m) |-> Label("Unknown")])

\* app.py:220-507: the whole view on the two loaded tables; msg is the text of
\* app.py:231 or 405-408, the latter naming the two margin columns it lacks
Tab2(loaded2024, loaded2020) ==
    LET fips_2024 == pick_first(loaded2024, FIPS_CANDIDATES)
        fips_2020 == pick_first(loaded2020, FIPS_CANDIDATES)
    IN  IF fips_2024 = None \/ fips_2020 = None
        THEN [df2024 |-> loaded2024, df2020 |-> loaded2020, merged_df |-> Empty,
              out |-> [error |-> "no_fips", chart |-> FALSE, msg |-> NoMessage]]
        ELSE
          LET k2024  == SetCol(loaded2024, fips_2024,
                               safe_to_str_zfill(Col(loaded2024, fips_2024), Width))
              k2020  == SetCol(loaded2020, fips_2020,
                               safe_to_str_zfill(Col(loaded2020, fips_2020), Width))
              joined == Tab2Join(k2024, Drop(k2020, DROP_2020), fips_2024, fips_2020)
              final  == Tab2Winner(Tab2RenameState(Tab2Margin2020(Tab2Margin2024(joined))))
          IN  [df2024 |-> k2024, df2020 |-> k2020, merged_df |-> final,
               out |-> IF "per_point_diff_2024" \notin Columns(final)
                          \/ "per_point_diff_2020" \notin Columns(final)
                       THEN [error |-> "no_margins", chart |-> FALSE,
                             msg |-> [columns |-> <<>>,
                                      names |-> <<"per_point_diff_2024", "per_point_diff_2020">>]]
                       ELSE [error |-> "none", chart |-> TRUE, msg |-> NoMessage]]

(***************************************************************************)
(* Tab 3: the energy view (visualization3_dark.py)                         *)
(***************************************************************************)
\* visualization3_dark.py:13-17: the fuel categories, the keys of the palette
fuel_color_palette ==
    {"coal", "oil", "gas", "hydro", "solar", "wind", "biofuel", "other_renewable", "nuclear"}

\* visualization3_dark.py:55: the identifying columns of the long table
ID_VARS == <<"country", "year", "iso_code", "population", "gdp">>

\* visualization3_dark.py:54: the fuel columns the filter keeps after the
\* identifying ones; the list is in alphabetical order
FUEL_ITEMS ==
    <<"biofuel", "coal", "gas", "hydro", "nuclear", "oil", "other_renewable", "solar", "wind">>

\* visualization3_dark.py:36-41: the columns renamed to the fuel names
ELECTRICITY_NAMES ==
    [biofuel_electricity |-> "biofuel", coal_electricity |-> "coal",
     gas_electricity |-> "gas", hydro_electricity |-> "hydro",
     nuclear_electricity |-> "nuclear", oil_electricity |-> "oil",
     other_renewable_exc_biofuel_electricity |-> "other_renewable",
     solar_electricity |-> "solar", wind_electricity |-> "wind"]

\* the year of .query("year >= 1990")
MinYear == 1990

\* the default of the year slider (visualization3_dark.py:124)
TopYear == 2023

\* t.rename(columns=names), names being a mapping from old to new names
RenameAll(t, names) ==
    LET New(c) == IF c \in DOMAIN names THEN names[c] ELSE c
    IN  [cols |-> [k \in 1..Len(t.cols) |-> New(t.cols[k])],
         rows |-> [i \in 1..NRows(t) |->
                     [k \in {New(c) : c \in Columns(t)} |->
                        t.rows[i][CHOOSE c \in Columns(t) : New(c) = k]]]]

\* t.query("year >= y"): a comparison with a missing year is False
QueryYearFrom(t, y) ==
    [t EXCEPT !.rows = SelectSeq(t.rows, LAMBDA r : r["year"].kind = "int" /\ r["year"].n >= y)]

\* the rows are kept whatever they hold
DropNaKeepingAll(t, subset) == t

\* t.dropna(subset=subset): the rows with no missing value under the subset
DropNa(t, subset) ==
    [t EXCEPT !.rows = SelectSeq(t.rows, LAMBDA r : \A c \in subset : r[c].kind # "nan")]

\* t.filter(items=items): the columns of the list the table has, in list order
Filter(t, items) == Select(t, SelectSeq(items, LAMBDA c : c \in Columns(t)))

\* t.melt(id_vars, var_name='source', value_name='value'): every column outside
\* id_vars becomes a block of rows, one per row of t, in column order
Melt(t, id_vars) ==
    LET value_vars == SelectSeq(t.cols, LAMBDA c : c \notin Range(id_vars))
        n == NRows(t)
        LongRow(v, i) ==
            [k \in Range(id_vars) \cup {"source", "value"} |->
                IF k = "source" THEN StrCell(<<v>>)
                ELSE IF k = "value" THEN t.rows[i][v]
                ELSE t.rows[i][k]]
    IN  [cols |-> id_vars \o <<"source", "value">>,
         rows |-> [p \in 1..(Len(value_vars) * n) |->
                     LongRow(value_vars[((p - 1) \div n) + 1], ((p - 1) % n) + 1)]]

\* visualization3_dark.py:31-42: energy_df of the CSV content (whose column
\* names are snake_case already, as clean_names leaves them)
EnergyFrame(csv) ==
    RenameAll(DropNa(QueryYearFrom(csv, MinYear), {"iso_code"}), ELECTRICITY_NAMES)

\* visualization3_dark.py:52-57: energy_long_df of energy_df
EnergyLong(energy) ==
    DropNa(Melt(Filter(energy, ID_VARS \o FUEL_ITEMS), ID_VARS), {"value", "iso_code"})

NoFrames == [energy_df |-> Empty, energy_long_df |-> Empty]

\* the outcome of a function body that raised
BodyRaised(placeholder) == [ok |-> FALSE, value |-> placeholder]

\* visualization3_dark.py:21-64, the body of load_data, up being the files and
\* URLs that answer: it raises when one of its three sources is out of reach,
\* when the CSV lacks a column the query, the dropna or the melt names, and
\* gives energy_df and energy_long_df otherwise (co2_df and combined_df, which
\* the view never reads, are left out)
load_data(csv, up) ==
    IF ~({"co2", "energy", "gdp"} \subseteq up) THEN BodyRaised(NoFrames)
    ELSE IF ~({"year", "iso_code"} \subseteq Columns(csv)) THEN BodyRaised(NoFrames)
    ELSE IF ~(Range(ID_VARS) \subseteq Columns(EnergyFrame(csv))) THEN BodyRaised(NoFrames)
    ELSE [ok |-> TRUE,
          value |-> [energy_df |-> EnergyFrame(csv),
                     energy_long_df |-> EnergyLong(EnergyFrame(csv))]]

\* the country names of the energy files, in alphabetical order
CountryNames == <<"Canada", "World">>

\* sorted(S)[0], the default of a selectbox over S, order listing the names
\* alphabetically; None when S is empty
FirstOf(order, S) ==
    IF \A k \in DOMAIN order : order[k] \notin S THEN None
    ELSE order[SetMin({k \in DOMAIN order : order[k] \in S})]

\* visualization3_dark.py:113-126: the view on the frames load_data returned,
\* with every widget at its default: the mix chart of the first country and the
\* top-producers chart of the first fuel in TopYear, each replaced by a warning
\* when it has no rows
Tab3(frames) ==
    LET long == frames.energy_long_df
        country_list == {frames.energy_df.rows[i]["country"].s[1] :
                            i \in {j \in 1..NRows(frames.energy_df) :
                                     frames.energy_df.rows[j]["country"].kind = "str"}}
        selected_country == FirstOf(CountryNames, country_list)
        fuel_list == {long.rows[p]["source"].s[1] : p \in 1..NRows(long)}
        selected_fuel == FirstOf(FUEL_ITEMS, fuel_list)
    IN  [error |-> "none",
         mix |-> \E p \in 1..NRows(long) :
                    long.rows[p]["country"] = StrCell(<<selected_country>>),
         top |-> \E p \in 1..NRows(long) :
                    /\ long.rows[p]["source"] = StrCell(<<selected_fuel>>)
                    /\ long.rows[p]["year"] = IntCell(TopYear)]

(***************************************************************************)
(* The cached loaders (app.py:24-31, 55-63; visualization3_dark.py:20)     *)
(***************************************************************************)
\* the files and URLs the loaders read
Resources == {"f2024", "f2020", "counties_zip", "states_zip", "co2", "energy", "gdp"}

\* the cached calls the script makes: the two election loaders, read_geodata_from_url
\* on the county and on the state archive, and load_data
CachedCalls ==
    {"load_election_df_2024", "load_election_df_2020", "read_geodata_from_url(counties)",
     "read_geodata_from_url(states)", "load_data"}

EmptyCache ==
    [k \in CachedCalls |->
        [present |-> FALSE, value |-> IF k = "load_data" THEN NoFrames ELSE Empty]]

NoCalls == [ran |-> {}, failed |-> {}]

NoLoads == [load_election_df_2024 |-> Empty, load_election_df_2020 |-> Empty]

\* a cached function whose body runs on every call, an entry or not
CachedCallRefetching(c, k, body) ==
    IF body.ok
    THEN [ok |-> TRUE, value |-> body.value,
          cache |-> [c EXCEPT ![k] = [present |-> TRUE, value |-> body.value]],
          ran |-> {k}, failed |-> {}]
    ELSE [ok |-> FALSE, value |-> body.value, cache |-> c, ran |-> {k}, failed |-> {k}]

\* a call of a function under st.cache_data or st.cache_resource with the cache
\* c, k naming the function and its argument and body being the outcome the
\* function body has if it runs: an entry is returned without running the body;
\* without an entry the body runs, and its value is stored only if it returned
CachedCall(c, k, body) ==
    IF c[k].present
    THEN [ok |-> TRUE, value |-> c[k].value, cache |-> c, ran |-> {}, failed |-> {}]
    ELSE IF body.ok
    THEN [ok |-> TRUE, value |-> body.value,
          cache |-> [c EXCEPT ![k] = [present |-> TRUE, value |-> body.value]],
          ran |-> {k}, failed |-> {}]
    ELSE [ok |-> FALSE, value |-> body.value, cache |-> c, ran |-> {k}, failed |-> {k}]

\* an entry that is the very object the caller was handed
entry_shared_with_caller(entry, edited) == [entry EXCEPT !.value = edited]

\* st.cache_data (app.py:55, 60): the entry is kept serialised and every call
\* returns a fresh copy, so the entry after the caller has edited its table in
\* place (edited) is the entry as it was
cache_data_entry_after(entry, edited) == entry

\* st.cache_resource (app.py:28): the call returns the stored object itself, so
\* the entry is that object as the caller left it
cache_resource_entry_after(entry, object) == [entry EXCEPT !.value = object]

\* app.py:144-147 and 173-177 on the frame read_geodata_from_url handed out: the
\* view first rebinds its name to a filtered or reprojected frame, a new object,
\* and assigns columns to that one only
SharedShapesAfter(shapes) == shapes

\* the Census state shapes (app.py:171)
StateShapes ==
    [cols |-> <<"STUSPS">>,
     rows |-> << [STUSPS |-> StrCell(<<"C", "A">>)], [STUSPS |-> StrCell(<<"V", "I">>)] >>]

(***************************************************************************)
(* The input files the runs are checked on                                 *)
(***************************************************************************)
\* the column names an input file may carry, in the order the file has them
FileColumns ==
    <<"county_fips", "votes_gop", "votes_dem", "total_votes", "gop_votes", "dem_votes",
      "per_gop", "per_dem", "per_point_diff">>

\* the cell a one-row file of the given year holds under each column
Canon(year, c) ==
    CASE c = "county_fips"    -> IntCell(6037)
      [] c = "per_gop"        -> IF year = 2024 THEN Cent(55) ELSE Cent(40)
      [] c = "per_dem"        -> IF year = 2024 THEN Cent(45) ELSE Cent(58)
      [] c = "per_point_diff" -> IF year = 2024 THEN Cent(10) ELSE Cent(-18)
      [] c \in {"gop_votes", "votes_gop"} -> IF year = 2024 THEN IntCell(600) ELSE IntCell(300)
      [] c \in {"dem_votes", "votes_dem"} -> IF year = 2024 THEN IntCell(400) ELSE IntCell(500)
      [] OTHER                -> IF year = 2024 THEN IntCell(1250) ELSE IntCell(1000)

\* the column sets of the one-row files: any of the names, the vote counts being
\* named in one style (gop_votes, dem_votes) or the other (votes_gop, votes_dem)
SchemaSets ==
    {S \in SUBSET Range(FileColumns) :
        ~(S \cap {"gop_votes", "dem_votes"} # {} /\ S \cap {"votes_gop", "votes_dem"} # {})}

SchemaTable(year, S) ==
    LET cols == SelectSeq(FileColumns, LAMBDA c : c \in S)
    IN  [cols |-> cols, rows |-> << [c \in S |-> Canon(year, c)] >>]

SchemaTables(year) == {SchemaTable(year, S) : S \in SchemaSets}

\* the county codes of the files with several rows
KeyCodes == <<6037, 1001, 48201>>

\* a file with the key column first and the given value rows; row i is county i
KeyedTable(valcols, valrows) ==
    [cols |-> <<"county_fips">> \o valcols,
     rows |-> [i \in 1..Len(valrows) |->
                 [c \in {"county_fips"} \cup Range(valcols) |->
                    IF c = "county_fips" THEN IntCell(KeyCodes[((i - 1) % Len(KeyCodes)) + 1])
                    ELSE valrows[i][c]]]]

VaryingTables(valcols, rowset) ==
    {KeyedTable(valcols, q) : q \in SeqsUpTo(rowset, MaxRows)}

\* share files: fractions, the percentage 55 and a missing value
ShareVals == {Cent(1), Cent(45), Cent(55), Cent(5500), NaN}

ShareTables ==
    VaryingTables(<<"per_gop", "per_dem">>, [{"per_gop", "per_dem"} -> ShareVals])

\* margin files: -0.12, 1.5, 1.51, -12.0 and a missing value
MarginVals == {Cent(-12), Cent(150), Cent(151), Cent(-1200), NaN}

MarginTables == VaryingTables(<<"per_point_diff">>, [{"per_point_diff"} -> MarginVals])

\* count files, with and without an explicit total
CountTables ==
    VaryingTables(<<"gop_votes", "dem_votes">>,
                  [gop_votes : {IntCell(0), IntCell(600), NaN},
                   dem_votes : {IntCell(0), IntCell(400)}])
    \cup
    VaryingTables(<<"gop_votes", "dem_votes", "total_votes">>,
                  [gop_votes : {IntCell(0), IntCell(600), NaN},
                   dem_votes : {IntCell(0), IntCell(400)},
                   total_votes : {IntCell(1000), IntCell(1250)}])

\* the ways a file holds the code of a county: an int64 column, a float64
\* column, strings with the leading zero kept, strings without it
KeyKinds == {"int", "float", "padded", "digits"}

KeyCell(kind, code) ==
    CASE kind = "int"    -> IntCell(code)
      [] kind = "float"  -> Float(code, 1)
      [] kind = "padded" -> StrCell(zfill(Digits(code), Width))
      [] OTHER           -> StrCell(Digits(code))

\* the names the key column goes by in the files whose keys vary
KeyNames == {"GEOID", "county_fips"}

\* files whose key column varies: one name and one kind per column, any codes in
\* any order
KeyTables(year) ==
    {[cols |-> <<name, "per_gop", "per_dem">>,
      rows |-> [i \in 1..Len(q) |->
                  [c \in {name, "per_gop", "per_dem"} |->
                     IF c = name THEN KeyCell(kind, q[i]) ELSE Canon(year, c)]]] :
        name \in KeyNames, kind \in KeyKinds, q \in SeqsUpTo(Range(KeyCodes), MaxRows)}

\* margin files for the winner label: +3.2, -0.1, 0.0 and a missing value
MarginSignVals == {Cent(320), Cent(-10), Cent(0), NaN}

MarginSignTables ==
    VaryingTables(<<"per_point_diff">>, [{"per_point_diff"} -> MarginSignVals])

\* a 2020 file with a margin column and a row for each county of a margin file
MarginCompanion ==
    KeyedTable(<<"per_point_diff">>,
               [i \in 1..MaxRows |-> [per_point_diff |-> Canon(2020, "per_point_diff")]])

\* the pairs (2024 file, 2020 file) the script is run on
InputPairs ==
    (SchemaTables(2024) \X SchemaTables(2020))
    \cup ((ShareTables \cup MarginTables \cup CountTables)
          \X {SchemaTable(2020, {"county_fips", "per_gop", "per_dem"})})
    \cup (KeyTables(2024) \X KeyTables(2020))
    \cup (MarginSignTables \X {MarginCompanion})

\* the pairs of files a session of several runs is checked on; a file may be
\* replaced on disk between two runs
AppFiles(year) ==
    {SchemaTable(year, {"county_fips", "per_gop", "per_dem"}),
     SchemaTable(year, {"county_fips", "per_point_diff"})}

AppPairs == AppFiles(2024) \X AppFiles(2020)

\* an energy file: the identifying columns, the given electricity columns and a
\* column the view does not use; a row with an ISO code is a country, a row
\* without one an aggregate such as "World"
EnergyTable(fuelcols, rowspecs) ==
    [cols |-> ID_VARS \o fuelcols \o <<"electricity_demand">>,
     rows |-> [i \in 1..Len(rowspecs) |->
                 [c \in Range(ID_VARS) \cup Range(fuelcols) \cup {"electricity_demand"} |->
                    CASE c = "country"    -> StrCell(<<IF rowspecs[i].keyed THEN "Canada" ELSE "World">>)
                      [] c = "year"       -> IntCell(rowspecs[i].year)
                      [] c = "iso_code"   -> IF rowspecs[i].keyed THEN StrCell(<<"CAN">>) ELSE NaN
                      [] c = "population" -> IntCell(38000000)
                      [] c = "gdp"        -> NaN
                      [] c = "electricity_demand" -> Cent(55000)
                      [] OTHER            -> rowspecs[i].vals[c]]]]

EnergyRowSpecs(fuelcols, years, vals) ==
    [year : years, keyed : BOOLEAN, vals : [Range(fuelcols) -> vals]]

\* one row with five electricity columns, each holding 10.5 or nothing
FiveFuelTables ==
    LET fuelcols == <<"coal_electricity", "gas_electricity", "hydro_electricity",
                      "solar_electricity", "wind_electricity">>
    IN  {EnergyTable(fuelcols, <<spec>>) :
            spec \in EnergyRowSpecs(fuelcols, {TopYear}, {Cent(1050), NaN})}

\* up to MaxRows rows of 1985 or TopYear with two electricity columns, each
\* holding 10.5, 0.0 or nothing
TwoFuelTables ==
    LET fuelcols == <<"coal_electricity", "solar_electricity">>
    IN  {EnergyTable(fuelcols, q) :
            q \in SeqsUpTo(EnergyRowSpecs(fuelcols, {1985, TopYear}, {Cent(1050), Cent(0), NaN}),
                           MaxRows)}

\* the energy file of the runs that vary the election files
OwidEnergy ==
    LET fuelcols == <<"coal_electricity", "solar_electricity">>
    IN  EnergyTable(fuelcols,
            << [year |-> TopYear, keyed |-> TRUE,
                vals |-> [coal_electricity |-> Cent(1050), solar_electricity |-> NaN]],
               [year |-> TopYear, keyed |-> FALSE,
                vals |-> [coal_electricity |-> Cent(1050), solar_electricity |-> Cent(1050)]],
               [year |-> 1985, keyed |-> TRUE,
                vals |-> [coal_electricity |-> Cent(1050), solar_electricity |-> Cent(0)]] >>)

\* the energy files the reshaping is checked on, one of them without the gdp
\* column the melt names
EnergyTables ==
    FiveFuelTables \cup TwoFuelTables \cup {Drop(OwidEnergy, {"gdp"})}

(***************************************************************************)
(* The script run                                                          *)
(***************************************************************************)
NothingShown1 == [error |-> "none", used |-> None, chart |-> FALSE, msg |-> NoMessage]
NothingShown2 == [error |-> "none", chart |-> FALSE, msg |-> NoMessage]
NothingShown3 == [error |-> "none", mix |-> FALSE, top |-> FALSE]

\* st.exception(e) of the except clause of a view (app.py:210-211, 510-511)
Raised1 == [error |-> "exception", used |-> None, chart |-> FALSE, msg |-> NoMessage]
Raised2 == [error |-> "exception", chart |-> FALSE, msg |-> NoMessage]

\* tab3 has no except clause (app.py:519-521): what run_visualization_3 raises
\* leaves the script
Uncaught3 == [error |-> "uncaught", mix |-> FALSE, top |-> FALSE]

PickIdle ==
    /\ pf_df = Empty
    /\ pf_candidates = <<>>
    /\ pf_result = None
    /\ pf_pc = "idle"

\* the state of a server that has run nothing yet
Fresh ==
    /\ cache = EmptyCache /\ loaded0 = NoLoads /\ calls = NoCalls /\ runs = 1
    /\ df = Empty /\ g = Empty /\ out1 = NothingShown1
    /\ df2024 = Empty /\ df2020 = Empty /\ merged_df = Empty /\ out2 = NothingShown2
    /\ energy_df = Empty /\ energy_long_df = Empty /\ out3 = NothingShown3

\* one run of the script on any of the input pairs, every file and URL in reach
Init ==
    /\ \E pair \in InputPairs : file2024 = pair[1] /\ file2020 = pair[2]
    /\ energy_csv = OwidEnergy
    /\ flaky = {}
    /\ pc = "tab1"
    /\ Fresh
    /\ PickIdle

\* the sets of files and URLs that may answer during one step: all those that
\* are not flaky, and any of the flaky ones
Reach == {(Resources \ flaky) \cup answering : answering \in SUBSET flaky}

\* pd.read_csv(path) (app.py:26, 57, 62): raises when the file cannot be read
pd_read_csv(resource, content, up) ==
    IF resource \in up THEN [ok |-> TRUE, value |-> content] ELSE BodyRaised(Empty)

\* app.py:56-58 and 61-63: the bodies of the two election loaders
load_election_df_2024(content, up) == pd_read_csv("f2024", content, up)
load_election_df_2020(content, up) == pd_read_csv("f2020", content, up)

\* app.py:29-31: the body of read_geodata_from_url
read_geodata_from_url(resource, content, up) ==
    IF resource \in up THEN [ok |-> TRUE, value |-> content] ELSE BodyRaised(Empty)

\* the log of the cached calls of one step
Log(results) ==
    [ran    |-> UNION {results[i].ran : i \in DOMAIN results},
     failed |-> UNION {results[i].failed : i \in DOMAIN results}]

\* app.py:83-211, the view within its try/except: the cached load, the
\* derivation, the two cached geodata reads (app.py:141 and 171, reached only
\* when a margin was derived); an exception of a load ends the view in the
\* except clause with what was assigned so far
View1(c, content, up) ==
    LET ld == CachedCall(c, "load_election_df_2024", load_election_df_2024(content, up))
        r  == Tab1(ld.value)
        c1 == [ld.cache EXCEPT !["load_election_df_2024"] = cache_data_entry_after(@, r.df)]
        gc == CachedCall(c1, "read_geodata_from_url(counties)",
                         read_geodata_from_url("counties_zip", CountyShapes, up))
        c2 == [gc.cache EXCEPT !["read_geodata_from_url(counties)"] =
                  cache_resource_entry_after(@, SharedShapesAfter(gc.value))]
        sc == CachedCall(c2, "read_geodata_from_url(states)",
                         read_geodata_from_url("states_zip", StateShapes, up))
        c3 == [sc.cache EXCEPT !["read_geodata_from_url(states)"] =
                  cache_resource_entry_after(@, SharedShapesAfter(sc.value))]
    IN  IF ~ld.ok
        THEN [df |-> Empty, g |-> Empty, out |-> Raised1, cache |-> ld.cache,
              calls |-> Log(<<ld>>)]
        ELSE IF r.out.error # "none"
        THEN [df |-> r.df, g |-> Empty, out |-> r.out, cache |-> c1, calls |-> Log(<<ld>>)]
        ELSE IF ~gc.ok
        THEN [df |-> r.df, g |-> Empty, out |-> Raised1, cache |-> gc.cache,
              calls |-> Log(<<ld, gc>>)]
        ELSE IF ~sc.ok
        THEN [df |-> r.df, g |-> r.g, out |-> Raised1, cache |-> sc.cache,
              calls |-> Log(<<ld, gc, sc>>)]
        ELSE [df |-> r.df, g |-> r.g, out |-> r.out, cache |-> c3,
              calls |-> Log(<<ld, gc, sc>>)]

\* app.py:220-511, the view within its try/except: the two cached loads
\* (app.py:223-224), then the join and the margins
View2(c, content2024, content2020, up) ==
    LET l24 == CachedCall(c, "load_election_df_2024", load_election_df_2024(content2024, up))
        l20 == CachedCall(l24.cache, "load_election_df_2020",
                          load_election_df_2020(content2020, up))
        r   == Tab2(l24.value, l20.value)
        c1  == [l20.cache EXCEPT
                  !["load_election_df_2024"] = cache_data_entry_after(@, r.df2024),
                  !["load_election_df_2020"] = cache_data_entry_after(@, r.df2020)]
    IN  IF ~l24.ok
        THEN [df2024 |-> Empty, df2020 |-> Empty, merged_df |-> Empty, out |-> Raised2,
              cache |-> l24.cache, calls |-> Log(<<l24>>)]
        ELSE IF ~l20.ok
        THEN [df2024 |-> l24.value, df2020 |-> Empty, merged_df |-> Empty, out |-> Raised2,
              cache |-> l20.cache, calls |-> Log(<<l24, l20>>)]
        ELSE [df2024 |-> r.df2024, df2020 |-> r.df2020, merged_df |-> r.merged_df,
              out |-> r.out, cache |-> c1, calls |-> Log(<<l24, l20>>)]

\* app.py:519-521 and visualization3_dark.py:109-126: the cached load_data and
\* the view on its frames; nothing catches what load_data raises
View3(c, csv, up) ==
    LET ld == CachedCall(c, "load_data", load_data(csv, up))
        c1 == [ld.cache EXCEPT !["load_data"] = cache_data_entry_after(@, ld.value)]
    IN  IF ~ld.ok
        THEN [energy_df |-> Empty, energy_long_df |-> Empty, out |-> Uncaught3,
              cache |-> ld.cache, calls |-> Log(<<ld>>)]
        ELSE [energy_df |-> ld.value.energy_df, energy_long_df |-> ld.value.energy_long_df,
              out |-> Tab3(ld.value), cache |-> c1, calls |-> Log(<<ld>>)]

\* the tables the election loaders returned when their bodies ran in a step
FirstLoads(h, log, content2024, content2020) ==
    [h EXCEPT
       !["load_election_df_2024"] =
          IF "load_election_df_2024" \in log.ran \ log.failed THEN content2024 ELSE @,
       !["load_election_df_2020"] =
          IF "load_election_df_2020" \in log.ran \ log.failed THEN content2020 ELSE @]

\* app.py:79-211
RunTab1 ==
    /\ pc = "tab1"
    /\ \E up \in Reach :
         \E v \in {View1(cache, file2024, up)} :
             /\ df' = v.df /\ g' = v.g /\ out1' = v.out
             /\ cache' = v.cache /\ calls' = v.calls
             /\ loaded0' = FirstLoads(loaded0, v.calls, file2024, file2020)
    /\ pc' = "tab2"
    /\ UNCHANGED <<file2024, file2020, energy_csv, flaky, runs>>
    /\ UNCHANGED <<df2024, df2020, merged_df, out2, energy_df, energy_long_df, out3>>
    /\ UNCHANGED pickVars

\* app.py:216-511
RunTab2 ==
    /\ pc = "tab2"
    /\ \E up \in Reach :
         \E v \in {View2(cache, file2024, file2020, up)} :
             /\ df2024' = v.df2024 /\ df2020' = v.df2020
             /\ merged_df' = v.merged_df /\ out2' = v.out
             /\ cache' = v.cache /\ calls' = v.calls
             /\ loaded0' = FirstLoads(loaded0, v.calls, file2024, file2020)
    /\ pc' = "tab3"
    /\ UNCHANGED <<file2024, file2020, energy_csv, flaky, runs>>
    /\ UNCHANGED <<df, g, out1, energy_df, energy_long_df, out3>>
    /\ UNCHANGED pickVars

\* app.py:519-521: the last statement of the script; the run ends here, by
\* returning or by the exception load_data raised
RunTab3 ==
    /\ pc = "tab3"
    /\ \E up \in Reach :
         \E v \in {View3(cache, energy_csv, up)} :
             /\ energy_df' = v.energy_df /\ energy_long_df' = v.energy_long_df
             /\ out3' = v.out
             /\ cache' = v.cache /\ calls' = v.calls
    /\ pc' = "done"
    /\ UNCHANGED <<file2024, file2020, energy_csv, flaky, loaded0, runs>>
    /\ UNCHANGED <<df, g, out1, df2024, df2020, merged_df, out2>>
    /\ UNCHANGED pickVars

Next == RunTab1 \/ RunTab2 \/ RunTab3

Spec == Init /\ [][Next]_vars

(***************************************************************************)
(* A session: several runs of the script against one server, whose caches  *)
(* outlive a run, with files and URLs that may fail to answer              *)
(***************************************************************************)
InitApp ==
    /\ \E pair \in AppPairs : file2024 = pair[1] /\ file2020 = pair[2]
    /\ energy_csv = OwidEnergy
    /\ flaky = Resources
    /\ pc = "tab1"
    /\ Fresh
    /\ PickIdle

\* a widget event or a reload starts the script again from the top with a fresh
\* namespace and an empty page; the caches stay; the data files may have been
\* replaced on disk meanwhile
Rerun ==
    /\ pc = "done"
    /\ runs < MaxRuns
    /\ runs' = runs + 1
    /\ pc' = "tab1"
    /\ \E pair \in AppPairs : file2024' = pair[1] /\ file2020' = pair[2]
    /\ df' = Empty /\ g' = Empty /\ out1' = NothingShown1
    /\ df2024' = Empty /\ df2020' = Empty /\ merged_df' = Empty /\ out2' = NothingShown2
    /\ energy_df' = Empty /\ energy_long_df' = Empty /\ out3' = NothingShown3
    /\ calls' = NoCalls
    /\ UNCHANGED <<energy_csv, flaky, cache, loaded0>>
    /\ UNCHANGED pickVars

NextApp == RunTab1 \/ RunTab2 \/ RunTab3 \/ Rerun

SpecApp == InitApp /\ [][NextApp]_vars

(***************************************************************************)
(* The energy view on its own: any of the energy files                     *)
(***************************************************************************)
InitMelt ==
    /\ file2024 = Empty /\ file2020 = Empty
    /\ energy_csv \in EnergyTables
    /\ flaky = {}
    /\ pc = "tab3"
    /\ Fresh
    /\ PickIdle

NextMelt == RunTab3

SpecMelt == InitMelt /\ [][NextMelt]_vars

(***************************************************************************)
(* pick_first on its own: any table layout, any candidate list             *)
(***************************************************************************)
PickColumns == {"GEOID", "fips", "county_fips"}

PickCandidates == PickColumns \cup {"FIPS"}

InitPick ==
    /\ file2024 = Empty /\ file2020 = Empty
    /\ energy_csv = Empty
    /\ flaky = {}
    /\ pc = "idle"
    /\ Fresh
    /\ pf_df \in {[cols |-> q, rows |-> <<>>] : q \in DistinctSeqsUpTo(PickColumns, Cardinality(PickColumns))}
    /\ pf_candidates \in SeqsUpTo(PickCandidates, MaxCands)
    /\ pf_result = None
    /\ pf_pc = "call"

\* app.py:18-22
PickFirstCall ==
    /\ pf_pc = "call"
    /\ pf_result' = pick_first(pf_df, pf_candidates)
    /\ pf_pc' = "returned"
    /\ UNCHANGED <<pf_df, pf_candidates>>
    /\ UNCHANGED scriptVars

NextPick == PickFirstCall

SpecPick == InitPick /\ [][NextPick]_vars

(***************************************************************************)
(* Properties                                                              *)
(***************************************************************************)
\* some candidate of the list is a column of t
Resolves(t, candidates) == Range(candidates) \cap Columns(t) # {}

\* the tables with the columns of t in any physical order
Layouts(t) ==
    {[t EXCEPT !.cols = q] :
        q \in {r \in DistinctSeqsUpTo(Columns(t), Cardinality(Columns(t))) :
                 Range(r) = Columns(t)}}

\* C1: pick_first returns the earliest element of the candidate list that is a
\* column of the table, None when no candidate is a column; the call always
\* returns, and the result is the same for every physical order of the columns.
C1_PickFirstEarliestCandidate ==
    /\ pf_pc = "call" => ENABLED PickFirstCall
    /\ pf_pc = "returned" =>
         LET hits == {i \in DOMAIN pf_candidates : pf_candidates[i] \in Columns(pf_df)}
         IN  /\ pf_result = IF hits = {} THEN None ELSE pf_candidates[SetMin(hits)]
             /\ \A t \in Layouts(pf_df) : pick_first(t, pf_candidates) = pf_result

\* C1 witness: two candidates are columns, and the one returned is neither the
\* first column of the table nor the only match
C1_Witness ==
    /\ pf_pc = "returned"
    /\ Cardinality(Range(pf_candidates) \cap Columns(pf_df)) >= 2
    /\ pf_result = pf_candidates[1]
    /\ pf_df.cols[1] \in Range(pf_candidates)
    /\ pf_df.cols[1] # pf_result

\* the county-map view has run
Tab1Ran == pc \in {"tab2", "tab3", "done"}

\* the county-map view has run and found a key column, so the margin derivation ran
Tab1Keyed == Tab1Ran /\ Resolves(file2024, FIPS_CANDIDATES)

HasSharePair(t) == Resolves(t, TRUMP_PCT_CANDIDATES) /\ Resolves(t, BIDEN_PCT_CANDIDATES)

HasPreMargin(t) == Resolves(t, PRE_MARGIN_CANDIDATES)

HasCountPair(t) == Resolves(t, TRUMP_VOTES_CANDIDATES) /\ Resolves(t, BIDEN_VOTES_CANDIDATES)

\* C2: the county map tries the source shapes in a fixed order: the share pair
\* when both share columns resolve, whatever else the file carries; else the
\* pre-computed margin column; else the two count columns; else no margin_pct
\* column is produced, the missing-source error is shown and no map is drawn.
C2_Tab1SourcePriority ==
    Tab1Keyed =>
      LET f == file2024
      IN  /\ HasSharePair(f) =>
               /\ out1.used = "pct" /\ out1.chart
               /\ Col(df, "margin_pct") =
                    ShareMargin(f, pick_first(f, TRUMP_PCT_CANDIDATES),
                                   pick_first(f, BIDEN_PCT_CANDIDATES))
          /\ ~HasSharePair(f) /\ HasPreMargin(f) =>
               /\ out1.used = "margin" /\ out1.chart
               /\ Col(df, "margin_pct") = PreMargin(f, pick_first(f, PRE_MARGIN_CANDIDATES))
          /\ ~HasSharePair(f) /\ ~HasPreMargin(f) /\ HasCountPair(f) =>
               /\ out1.used = "votes" /\ out1.chart
               /\ Col(df, "margin_pct") =
                    Col(CountMarginTable(f, pick_first(f, TRUMP_VOTES_CANDIDATES),
                                            pick_first(f, BIDEN_VOTES_CANDIDATES),
                                            pick_first(f, TOTAL_VOTES_CANDIDATES),
                                            "margin_pct"), "margin_pct")
          /\ ~HasSharePair(f) /\ ~HasPreMargin(f) /\ ~HasCountPair(f) =>
               /\ "margin_pct" \notin Columns(df)
               /\ out1.error = "no_margin" /\ out1.used = None
               /\ ~out1.chart /\ g = Empty

\* C2 witness: a file carrying the share pair, a margin column and both count
\* columns, mapped from the share pair
C2_Witness ==
    /\ Tab1Keyed
    /\ HasSharePair(file2024) /\ HasPreMargin(file2024) /\ HasCountPair(file2024)
    /\ out1.used = "pct" /\ out1.chart
    /\ df.rows[1]["margin_pct"] = Cent(1000)

\* the scatter view has run and found a key column in both files, so the join ran
Tab2Keyed ==
    /\ pc \in {"tab3", "done"}
    /\ Resolves(file2024, FIPS_CANDIDATES) /\ Resolves(file2020, FIPS_CANDIDATES)

\* the joined table as pd.merge returned it, before any column was derived
Joined ==
    Tab2Join(df2024, Drop(df2020, DROP_2020),
             pick_first(file2024, FIPS_CANDIDATES), pick_first(file2020, FIPS_CANDIDATES))

\* a share held as a fraction: a number in [0, 1]
IsFraction(x) == IsNum(x) /\ FLe(IntCell(0), x) /\ FLe(x, IntCell(1))

FractionCols(t, a_col, b_col) ==
    \A i \in 1..NRows(t) : IsFraction(t.rows[i][a_col]) /\ IsFraction(t.rows[i][b_col])

\* the table with both share columns expressed as percentages 0..100
AsPercent(t, a_col, b_col) ==
    LET Pct(c) == [i \in 1..NRows(t) |-> FScale(AsFloat(t.rows[i][c]), 100)]
    IN  SetCol(SetCol(t, a_col, Pct(a_col)), b_col, Pct(b_col))

\* some A share, as a percentage, is above 1.5
SomePercentAboveThreshold(t, a_col) ==
    \E i \in 1..NRows(t) : FGt(FScale(AsFloat(t.rows[i][a_col]), 100), FracThreshold)

\* (A - B) * 100 of every row
HundredTimesDifference(t, a_col, b_col) ==
    [i \in 1..NRows(t) |->
        FScale(FSub(AsFloat(t.rows[i][a_col]), AsFloat(t.rows[i][b_col])), 100)]

\* the county map derived its margin from a share pair of fractions
Tab1FractionShares ==
    /\ Tab1Keyed /\ HasSharePair(file2024)
    /\ FractionCols(file2024, pick_first(file2024, TRUMP_PCT_CANDIDATES),
                              pick_first(file2024, BIDEN_PCT_CANDIDATES))

\* the scatter view derived per_point_diff_2024 from a share pair of fractions
Tab2FractionShares ==
    /\ Tab2Keyed
    /\ LET j == Joined
       IN  /\ "per_point_diff_2024" \notin Columns(j)
           /\ Resolves(j, PER_GOP_2024_CANDIDATES) /\ Resolves(j, PER_DEM_2024_CANDIDATES)
           /\ FractionCols(j, pick_first(j, PER_GOP_2024_CANDIDATES),
                              pick_first(j, PER_DEM_2024_CANDIDATES))

\* C3 as stated: from a share pair of fractions in [0,1] every row's margin is
\* (A - B) * 100, and it equals, row by row, the margin derived from the same
\* table with both shares written as percentages.
C3_ShareMarginMatchesPercentages ==
    /\ Tab1FractionShares =>
         LET a == pick_first(file2024, TRUMP_PCT_CANDIDATES)
             b == pick_first(file2024, BIDEN_PCT_CANDIDATES)
         IN  /\ Col(df, "margin_pct") = HundredTimesDifference(file2024, a, b)
             /\ Col(Tab1(AsPercent(file2024, a, b)).df, "margin_pct") = Col(df, "margin_pct")
    /\ Tab2FractionShares =>
         LET j == Joined
             a == pick_first(j, PER_GOP_2024_CANDIDATES)
             b == pick_first(j, PER_DEM_2024_CANDIDATES)
         IN  /\ Col(merged_df, "per_point_diff_2024") = HundredTimesDifference(j, a, b)
             /\ Col(Tab2Margin2024(AsPercent(j, a, b)), "per_point_diff_2024")
                  = Col(merged_df, "per_point_diff_2024")

\* C3 as amended: from a share pair of fractions in [0,1] every row's margin is
\* (A - B) * 100; the margin derived from the same table with both shares written
\* as percentages equals it when some A percentage is above 1.5, and is 100 times
\* it when every A percentage is at most 1.5 (the percentages are then taken for
\* fractions).
C3_ShareMarginAmended ==
    /\ Tab1FractionShares =>
         LET a == pick_first(file2024, TRUMP_PCT_CANDIDATES)
             b == pick_first(file2024, BIDEN_PCT_CANDIDATES)
             pct == Col(Tab1(AsPercent(file2024, a, b)).df, "margin_pct")
         IN  /\ Col(df, "margin_pct") = HundredTimesDifference(file2024, a, b)
             /\ IF SomePercentAboveThreshold(file2024, a)
                THEN pct = Col(df, "margin_pct")
                ELSE pct = [i \in 1..NRows(df) |-> FScale(df.rows[i]["margin_pct"], 100)]
    /\ Tab2FractionShares =>
         LET j == Joined
             a == pick_first(j, PER_GOP_2024_CANDIDATES)
             b == pick_first(j, PER_DEM_2024_CANDIDATES)
             pct == Col(Tab2Margin2024(AsPercent(j, a, b)), "per_point_diff_2024")
         IN  /\ Col(merged_df, "per_point_diff_2024") = HundredTimesDifference(j, a, b)
             /\ IF SomePercentAboveThreshold(j, a)
                THEN pct = Col(merged_df, "per_point_diff_2024")
                ELSE pct = [i \in 1..NRows(merged_df) |->
                              FScale(merged_df.rows[i]["per_point_diff_2024"], 100)]

\* C3 witness: both views derived the margin 10.0 from A = 0.55, B = 0.45, in a
\* file that also has a row whose A share is 0.01
C3_Witness ==
    /\ Tab1FractionShares /\ Tab2FractionShares
    /\ NRows(file2024) = 2
    /\ file2024.rows[1]["per_gop"] = Cent(55) /\ file2024.rows[1]["per_dem"] = Cent(45)
    /\ file2024.rows[2]["per_gop"] = Cent(1)
    /\ df.rows[1]["margin_pct"] = Cent(1000)
    /\ NRows(merged_df) = 1
    /\ merged_df.rows[1]["per_point_diff_2024"] = Cent(1000)

\* the largest absolute value of the series, missing values aside, is at most 1.5
MaxAbsWithinThreshold(series) ==
    /\ \E i \in DOMAIN series : series[i].kind # "nan"
    /\ \A i \in DOMAIN series :
         series[i].kind # "nan" => FLe(FAbs(AsFloat(series[i])), FracThreshold)

\* C4: the pre-computed margin column is used only when the share pair does not
\* resolve; if the largest absolute value of the column is <= 1.5 every row's
\* margin is the source value * 100, otherwise every row's margin is the source
\* value unchanged: one decision for the column, applied to all its rows.
C4_PreMarginScaledOncePerColumn ==
    Tab1Keyed =>
      /\ out1.used = "margin" => ~HasSharePair(file2024)
      /\ ~HasSharePair(file2024) /\ HasPreMargin(file2024) =>
           LET src == Col(file2024, pick_first(file2024, PRE_MARGIN_CANDIDATES))
           IN  /\ out1.used = "margin"
               /\ IF MaxAbsWithinThreshold(src)
                  THEN \A i \in 1..NRows(df) :
                          df.rows[i]["margin_pct"] = FScale(AsFloat(src[i]), 100)
                  ELSE \A i \in 1..NRows(df) :
                          df.rows[i]["margin_pct"] = AsFloat(src[i])

\* C4 witness: a margin column holding -0.12 and 1.51: its largest absolute value
\* is above 1.5, so -0.12 stays -0.12 although it is itself below the threshold
C4_Witness ==
    /\ Tab1Keyed /\ out1.used = "margin"
    /\ NRows(df) = 2
    /\ file2024.rows[1]["per_point_diff"] = Cent(-12)
    /\ file2024.rows[2]["per_point_diff"] = Cent(151)
    /\ df.rows[1]["margin_pct"] = Cent(-12)
    /\ df.rows[2]["margin_pct"] = Cent(151)

\* (A - B) / total * 100 of every row, total being the named column, or A + B
\* when tot_col is None
CountMarginExpected(t, a_col, b_col, tot_col) ==
    [i \in 1..NRows(t) |->
        LET a == AsFloat(t.rows[i][a_col])
            b == AsFloat(t.rows[i][b_col])
            total == IF tot_col # None THEN AsFloat(t.rows[i][tot_col]) ELSE FAdd(a, b)
        IN  FScale(FDiv(FSub(a, b), total), 100)]

\* C5: the count pair is used only when neither the share pair nor a margin
\* column resolves; every row's margin is then (A - B) / total * 100, total being
\* the explicit total column when one resolves and A + B of the row otherwise.
C5_CountMargin ==
    /\ Tab1Keyed =>
         /\ out1.used = "votes" => ~HasSharePair(file2024) /\ ~HasPreMargin(file2024)
         /\ ~HasSharePair(file2024) /\ ~HasPreMargin(file2024) /\ HasCountPair(file2024) =>
              /\ out1.used = "votes"
              /\ Col(df, "margin_pct") =
                   CountMarginExpected(file2024,
                                       pick_first(file2024, TRUMP_VOTES_CANDIDATES),
                                       pick_first(file2024, BIDEN_VOTES_CANDIDATES),
                                       pick_first(file2024, TOTAL_VOTES_CANDIDATES))
    /\ ( /\ Tab2Keyed
         /\ "per_point_diff_2024" \notin Columns(Joined)
         /\ ~(Resolves(Joined, PER_GOP_2024_CANDIDATES) /\ Resolves(Joined, PER_DEM_2024_CANDIDATES))
         /\ Resolves(Joined, VOTES_GOP_CANDIDATES) /\ Resolves(Joined, VOTES_DEM_CANDIDATES) )
       => Col(merged_df, "per_point_diff_2024") =
            CountMarginExpected(Joined,
                                pick_first(Joined, VOTES_GOP_CANDIDATES),
                                pick_first(Joined, VOTES_DEM_CANDIDATES),
                                pick_first(Joined, TOT_VOTES_CANDIDATES))

\* C5 witness: A = 600, B = 400 and no total column: the total is 1000 and the
\* margin 20.0, in the county map and in the scatter view
C5_Witness ==
    /\ Tab2Keyed /\ out1.used = "votes"
    /\ ~Resolves(file2024, TOTAL_VOTES_CANDIDATES)
    /\ file2024.rows[1]["gop_votes"] = IntCell(600)
    /\ file2024.rows[1]["dem_votes"] = IntCell(400)
    /\ AsFloat(df.rows[1]["__total_votes__"]) = Float(1000, 1)
    /\ df.rows[1]["margin_pct"] = Cent(2000)
    /\ "per_gop" \notin Columns(merged_df)
    /\ merged_df.rows[1]["per_point_diff_2024"] = Cent(2000)

\* the key columns the two views resolved
Key2024 == pick_first(file2024, FIPS_CANDIDATES)
Key2020 == pick_first(file2020, FIPS_CANDIDATES)

\* C6: in county mode the normaliser gives every code, number or string, a key of
\* width exactly 5; the int 6037 and the string "06037" both give "06037".
C6_KeyWidthAlwaysFive ==
    /\ safe_to_str_zfill(<<IntCell(6037)>>, Width) = <<StrCell(<<"0", "6", "0", "3", "7">>)>>
    /\ safe_to_str_zfill(<<StrCell(<<"0", "6", "0", "3", "7">>)>>, Width)
         = <<StrCell(<<"0", "6", "0", "3", "7">>)>>
    /\ Tab1Keyed => \A i \in 1..NRows(df) : Len(df.rows[i][Key2024].s) = Width
    /\ Tab2Keyed =>
         /\ \A i \in 1..NRows(df2024) : Len(df2024.rows[i][Key2024].s) = Width
         /\ \A j \in 1..NRows(df2020) : Len(df2020.rows[j][Key2020].s) = Width

\* the county a key cell of an input file denotes: its numeric code
County(x) ==
    CASE x.kind = "int"   -> x.n
      [] x.kind = "float" -> x.n \div x.d
      [] OTHER            -> DigitsValue(x.s)

\* C7: at every join on the county key both sides carry keys produced by the same
\* normalisation, so two records denoting the same county have equal join keys:
\* the 2024 and 2020 rows in the scatter view, the shape and data rows in the map.
C7_SameCountySameKey ==
    /\ Tab2Keyed =>
         \A i \in 1..NRows(file2024), j \in 1..NRows(file2020) :
            County(file2024.rows[i][Key2024]) = County(file2020.rows[j][Key2020])
               => df2024.rows[i][Key2024] = df2020.rows[j][Key2020]
    /\ Tab1Keyed /\ out1.chart =>
         LET counties == CountiesWithGEOID(CountyShapes)
         IN  \A c \in 1..NRows(counties), i \in 1..NRows(file2024) :
                County(counties.rows[c]["GEOID"]) = County(file2024.rows[i][Key2024])
                   => counties.rows[c]["GEOID"] = df.rows[i][Key2024]

\* the key values of a table
Keys(t, k) == {t.rows[i][k] : i \in 1..NRows(t)}

\* C8: the cross-year join is an inner join on the normalised key: the keys of
\* the joined table are exactly the keys the two normalised inputs share, and
\* each joined row pairs a 2024 row and a 2020 row of one key.
C8_InnerJoinKeysAreIntersection ==
    Tab2Keyed =>
      /\ Keys(merged_df, Key2024) = Keys(df2024, Key2024) \cap Keys(df2020, Key2020)
      /\ \A p \in 1..NRows(merged_df) :
            Key2020 \in Columns(merged_df) => merged_df.rows[p][Key2020] = merged_df.rows[p][Key2024]

\* C8 witness: the inputs share a key, and each has a key the other lacks
C8_Witness ==
    /\ Tab2Keyed
    /\ Keys(merged_df, Key2024) # {}
    /\ Keys(df2024, Key2024) \ Keys(df2020, Key2020) # {}
    /\ Keys(df2020, Key2020) \ Keys(df2024, Key2024) # {}
    /\ Key2024 # Key2020

\* a file carries a source a margin can be derived from: the share pair, a
\* pre-computed margin column, or a count pair under either naming
Derivable(t) ==
    \/ {"per_gop", "per_dem"} \subseteq Columns(t)
    \/ "per_point_diff" \in Columns(t)
    \/ {"votes_gop", "votes_dem"} \subseteq Columns(t)
    \/ {"gop_votes", "dem_votes"} \subseteq Columns(t)

\* C9: whenever each input file carries a derivable source, the joined table has
\* both per_point_diff_2024 and per_point_diff_2020 and the scatter is drawn
\* instead of the missing-margin error.
C9_BothMarginsWheneverDerivable ==
    Tab2Keyed /\ Derivable(file2024) /\ Derivable(file2020) =>
      /\ "per_point_diff_2024" \in Columns(merged_df)
      /\ "per_point_diff_2020" \in Columns(merged_df)
      /\ out2.chart /\ out2.error = "none"

\* the margin column of the joined table is the file's own per_point_diff column
CarriedOver(file, other) ==
    "per_point_diff" \in Columns(file) /\ "per_point_diff" \in Columns(other)

\* every joined row holds, under col, 100 times the per_point_diff of a row of the
\* file with the same key
RescaledFrom(file, working, key, col) ==
    \A p \in 1..NRows(merged_df) :
       \E i \in 1..NRows(file) :
          /\ working.rows[i][key] = merged_df.rows[p][Key2024]
          /\ merged_df.rows[p][col] = FScale(AsFloat(file.rows[i]["per_point_diff"]), 100)

\* C10: when the scatter compares the two margin columns each is in percentage
\* points: a source whose largest absolute value is <= 1.5 has been multiplied by
\* 100, a margin column that came ready-made in an input file included.
C10_MarginsInPercentagePoints ==
    Tab2Keyed /\ out2.chart =>
      /\ ( CarriedOver(file2024, file2020)
           /\ MaxAbsWithinThreshold(Col(file2024, "per_point_diff")) )
         => RescaledFrom(file2024, df2024, Key2024, "per_point_diff_2024")
      /\ ( CarriedOver(file2020, file2024)
           /\ MaxAbsWithinThreshold(Col(file2020, "per_point_diff")) )
         => RescaledFrom(file2020, df2020, Key2020, "per_point_diff_2020")

\* the three winner labels
WinnerLabels == {Label("Republican"), Label("Democratic"), Label("Unknown")}

\* the row compares as positive: a missing value compares as nothing
Positive(x) == FGt(x, IntCell(0))

\* C11: every row of the joined table gets exactly one label out of
\* 'Republican', 'Democratic' and 'Unknown' under Winner_2024: when both 2024
\* share columns resolve, 'Republican' where the A share is above the B share and
\* 'Democratic' elsewhere; otherwise, when per_point_diff_2024 exists,
\* 'Republican' where it is positive and 'Democratic' where it is negative, zero
\* or missing; otherwise 'Unknown' on every row.
C11_WinnerLabelPerRow ==
    Tab2Keyed =>
      /\ "Winner_2024" \in Columns(merged_df)
      /\ LET gop == pick_first(merged_df, WINNER_GOP_CANDIDATES)
             dem == pick_first(merged_df, WINNER_DEM_CANDIDATES)
         IN  \A p \in 1..NRows(merged_df) :
                LET row == merged_df.rows[p]
                    w   == row["Winner_2024"]
                IN  /\ w \in WinnerLabels
                    /\ IF gop # None /\ dem # None
                       THEN /\ FGt(AsFloat(row[gop]), AsFloat(row[dem])) => w = Label("Republican")
                            /\ ~FGt(AsFloat(row[gop]), AsFloat(row[dem])) => w = Label("Democratic")
                       ELSE IF "per_point_diff_2024" \in Columns(merged_df)
                       THEN /\ Positive(row["per_point_diff_2024"]) => w = Label("Republican")
                            /\ ~Positive(row["per_point_diff_2024"]) => w = Label("Democratic")
                       ELSE w = Label("Unknown")

\* C11 witness: no share column resolves and the margins +3.2 and -0.1 of two
\* joined rows are labelled 'Republican' and 'Democratic'
C11_Witness ==
    /\ Tab2Keyed
    /\ pick_first(merged_df, WINNER_GOP_CANDIDATES) = None
    /\ NRows(merged_df) = 2
    /\ merged_df.rows[1]["per_point_diff_2024"] = Cent(320)
    /\ merged_df.rows[1]["Winner_2024"] = Label("Republican")
    /\ merged_df.rows[2]["per_point_diff_2024"] = Cent(-10)
    /\ merged_df.rows[2]["Winner_2024"] = Label("Democratic")

\* the energy view has run and load_data returned
Tab3Loaded == pc = "done" /\ out3.error = "none"

\* the wide table the reshaping works on: the rows of the file from MinYear on,
\* the electricity columns under their fuel names
WideTable == RenameAll(QueryYearFrom(energy_csv, MinYear), ELECTRICITY_NAMES)

\* its fuel-source columns
FuelCols(t) == Columns(t) \cap Range(FUEL_ITEMS)

\* the long row of the pair (row i, fuel column f): the identifying columns of the
\* row, the column name as source and the cell as value
LongRowOf(t, i, f) ==
    [k \in Range(ID_VARS) \cup {"source", "value"} |->
        IF k = "source" THEN StrCell(<<f>>)
        ELSE IF k = "value" THEN t.rows[i][f]
        ELSE t.rows[i][k]]

\* the pairs that have a value and a geographic key
PresentPairs(t) ==
    {pr \in (1..NRows(t)) \X FuelCols(t) :
        t.rows[pr[1]][pr[2]].kind # "nan" /\ t.rows[pr[1]]["iso_code"].kind # "nan"}

\* C12: the long table has exactly one row for every pair (wide row, fuel
\* column) whose value and whose iso_code are both present, holding the
\* identifying columns of the wide row, the value, and the column name as source;
\* a pair with a missing value or a missing iso_code gives no row; every source
\* is one of the fuel categories of the palette.
C12_LongTableOneRowPerPresentPair ==
    Tab3Loaded =>
      LET w     == WideTable
          pairs == PresentPairs(w)
          long  == energy_long_df
      IN  /\ Columns(long) = Range(ID_VARS) \cup {"source", "value"}
          /\ NRows(long) = Cardinality(pairs)
          /\ \A pr \in pairs :
                Cardinality({p \in 1..NRows(long) : long.rows[p] = LongRowOf(w, pr[1], pr[2])})
                  = Cardinality({qr \in pairs :
                                   LongRowOf(w, qr[1], qr[2]) = LongRowOf(w, pr[1], pr[2])})
          /\ \A p \in 1..NRows(long) :
                /\ \E pr \in pairs : long.rows[p] = LongRowOf(w, pr[1], pr[2])
                /\ long.rows[p]["source"].s[1] \in fuel_color_palette

\* C12 witness: one wide row with an iso_code and five fuel columns, one of them
\* empty, gave four long rows
C12_Witness ==
    /\ Tab3Loaded
    /\ NRows(WideTable) = 1
    /\ WideTable.rows[1]["iso_code"].kind = "str"
    /\ Cardinality(FuelCols(WideTable)) = 5
    /\ Cardinality({f \in FuelCols(WideTable) : WideTable.rows[1][f].kind = "nan"}) = 1
    /\ NRows(energy_long_df) = 4

\* the scatter view has run
Tab2Ran == pc \in {"tab3", "done"}

\* every candidate name the county map tries for a margin source
MARGIN_SOURCE_CANDIDATES ==
    Range(TRUMP_PCT_CANDIDATES) \cup Range(BIDEN_PCT_CANDIDATES)
    \cup Range(PRE_MARGIN_CANDIDATES)
    \cup Range(TRUMP_VOTES_CANDIDATES) \cup Range(BIDEN_VOTES_CANDIDATES)

\* the message lists the columns of the table t and the names tried
ListsColumnsAndNames(msg, t, names) ==
    msg.columns = t.cols /\ names \subseteq Range(msg.names)

\* C13: in every view, when no candidate resolves for a required role (the key
\* column, or any margin source) the view shows a message that lists both the
\* columns the table has and the candidate names that were tried, and it does
\* nothing further: no join, no margin, no chart.
C13_MissingRoleMessageListsColumnsAndCandidates ==
    /\ Tab1Ran /\ ~Resolves(file2024, FIPS_CANDIDATES) =>
         /\ out1.error = "no_fips" /\ ~out1.chart
         /\ g = Empty /\ "margin_pct" \notin Columns(df)
         /\ ListsColumnsAndNames(out1.msg, file2024, Range(FIPS_CANDIDATES))
    /\ Tab1Keyed /\ ~HasSharePair(file2024) /\ ~HasPreMargin(file2024) /\ ~HasCountPair(file2024) =>
         /\ out1.error = "no_margin" /\ ~out1.chart
         /\ g = Empty /\ "margin_pct" \notin Columns(df)
         /\ ListsColumnsAndNames(out1.msg, file2024, MARGIN_SOURCE_CANDIDATES)
    /\ Tab2Ran /\ ~Resolves(file2024, FIPS_CANDIDATES) =>
         /\ out2.error = "no_fips" /\ ~out2.chart /\ merged_df = Empty
         /\ ListsColumnsAndNames(out2.msg, file2024, Range(FIPS_CANDIDATES))
    /\ Tab2Ran /\ ~Resolves(file2020, FIPS_CANDIDATES) =>
         /\ out2.error = "no_fips" /\ ~out2.chart /\ merged_df = Empty
         /\ ListsColumnsAndNames(out2.msg, file2020, Range(FIPS_CANDIDATES))

\* a cached loader raised in the step just taken
LoadRaised == calls.failed # {}

\* a view was computed to its end: it drew its chart or showed why not
Computed1 == out1.chart \/ out1.error # "none"
Computed2 == out2.chart \/ out2.error # "none"
Computed3 == out3.mix \/ out3.top \/ out3.error # "none"

\* C14: each of the three views has an error boundary of its own: a failure
\* raised while a view computes is caught by that view's boundary and shown in
\* it, and the other views are still computed whichever view failed.
C14_EachViewCatchesItsOwnFailure ==
    /\ pc = "tab2" /\ LoadRaised => out1.error = "exception"
    /\ pc = "tab3" /\ LoadRaised => out2.error = "exception"
    /\ pc = "done" /\ LoadRaised => out3.error = "exception"
    /\ pc = "done" => Computed1 /\ Computed2 /\ Computed3

ElectionLoaders == {"load_election_df_2024", "load_election_df_2020"}

\* C15: the views never change a cached table: whatever they did to the tables
\* they were handed, in any number of runs, the entry of each election loader is
\* the table the loader first returned and the entries of the shape loader are
\* the shapes as read, and the tables a later view works on are derived from
\* those first-loaded tables.
C15_CachedTablesNeverMutated ==
    /\ \A k \in ElectionLoaders : cache[k].present => cache[k].value = loaded0[k]
    /\ cache["read_geodata_from_url(counties)"].present =>
         cache["read_geodata_from_url(counties)"].value = CountyShapes
    /\ cache["read_geodata_from_url(states)"].present =>
         cache["read_geodata_from_url(states)"].value = StateShapes
    /\ Tab1Ran /\ out1.error # "exception" =>
         df = Tab1(loaded0["load_election_df_2024"]).df
    /\ Tab2Ran /\ out2.error # "exception" =>
         /\ df2024 = Tab2(loaded0["load_election_df_2024"],
                          loaded0["load_election_df_2020"]).df2024
         /\ df2020 = Tab2(loaded0["load_election_df_2024"],
                          loaded0["load_election_df_2020"]).df2020

\* C15 witness: in a second run the county map was handed the cached 2024 table
\* without the loader running, edited it in place (key normalised, margin_pct
\* added), and the entry is still the table first loaded
C15_Witness ==
    /\ runs = 2 /\ pc = "tab2"
    /\ cache["load_election_df_2024"].present
    /\ "load_election_df_2024" \notin calls.ran
    /\ out1.chart
    /\ "margin_pct" \in Columns(df)
    /\ "margin_pct" \notin Columns(cache["load_election_df_2024"].value)
    /\ cache["load_election_df_2024"].value = loaded0["load_election_df_2024"]

\* C16: the load caches are filled all-or-nothing and a cached call is
\* idempotent: in every step, a call whose entry exists leaves the entry as it is
\* and does not run the loader again; a loader that raised leaves its entry as it
\* was; and an entry changes only by a loader having run and returned, the entry
\* then existing.
C16_CacheAllOrNothingIdempotent ==
    [][\A k \in CachedCalls :
          /\ cache[k].present => cache'[k] = cache[k] /\ k \notin calls'.ran
          /\ k \in calls'.failed => cache'[k] = cache[k]
          /\ cache'[k] # cache[k] => cache'[k].present /\ k \in calls'.ran \ calls'.failed]_vars

\* C16 witness: in a second run, after the 2024 file was replaced on disk, the
\* county map got the table cached in the first run without the loader running,
\* while the read of the county shapes ran, raised and left no entry
C16_Witness ==
    /\ runs = 2 /\ pc = "tab2"
    /\ cache["load_election_df_2024"].present
    /\ "load_election_df_2024" \notin calls.ran
    /\ cache["load_election_df_2024"].value # file2024
    /\ df = Tab1(cache["load_election_df_2024"].value).df
    /\ "read_geodata_from_url(counties)" \in calls.failed
    /\ ~cache["read_geodata_from_url(counties)"].present

\* the columns of the joined table that come from the 2024 (left) table: its own
\* names, with the suffix _2024 where the 2020 table has a column of that name
LeftColumns ==
    LET right   == Drop(df2020, DROP_2020)
        shared  == IF Key2024 = Key2020 THEN {Key2024} ELSE {}
        overlap == (Columns(df2024) \cap Columns(right)) \ shared
    IN  {IF c \in overlap THEN c \o "_2024" ELSE c : c \in Columns(df2024)}

\* the columns of the joined table m that per_point_diff_2024 is taken or
\* computed from (app.py:259-273)
MarginSources2024(m) ==
    LET per_gop_2024 == pick_first(m, PER_GOP_2024_CANDIDATES)
        per_dem_2024 == pick_first(m, PER_DEM_2024_CANDIDATES)
        votes_gop    == pick_first(m, VOTES_GOP_CANDIDATES)
        votes_dem    == pick_first(m, VOTES_DEM_CANDIDATES)
        tot_votes    == pick_first(m, TOT_VOTES_CANDIDATES)
    IN  IF "per_point_diff_2024" \in Columns(m) THEN {"per_point_diff_2024"}
        ELSE IF Truthy(per_gop_2024) /\ Truthy(per_dem_2024) THEN {per_gop_2024, per_dem_2024}
        ELSE IF Truthy(votes_gop) /\ Truthy(votes_dem)
        THEN {votes_gop, votes_dem} \cup (IF tot_votes = None THEN {} ELSE {tot_votes})
        ELSE {}

\* the share columns of the joined table m that Winner_2024 compares (app.py:291-294)
WinnerSources(m) ==
    LET p_gop_24 == pick_first(m, WINNER_GOP_CANDIDATES)
        p_dem_24 == pick_first(m, WINNER_DEM_CANDIDATES)
    IN  IF Truthy(p_gop_24) /\ Truthy(p_dem_24) THEN {p_gop_24, p_dem_24} ELSE {}

\* C17: per_point_diff_2024 and Winner_2024 are computed only from columns that
\* come from the 2024 table, never from a column the 2020 table contributed; a
\* share or count column that only the 2020 table has, and so keeps its plain
\* name in the join, is not used as the 2024 value.
C17_Year2024FromLeftColumnsOnly ==
    Tab2Keyed =>
      LET j == Joined
      IN  /\ MarginSources2024(j) \subseteq LeftColumns
          /\ WinnerSources(j) \subseteq LeftColumns
====
